---- MODULE Spec2Model ----
(***************************************************************************)
(* Model of translate_html.py: the translation-memory-backed text          *)
(* substitution pipeline (load_memory / save_memory, the three providers,  *)
(* apply_translation, translate_html_file and the batch loop of __main__). *)
(*                                                                         *)
(* Strings are sequences of one-character strings, so that str.strip and   *)
(* string concatenation are computed rather than assumed.  A JSON null     *)
(* that a provider hands back in place of a string is the value None.      *)
(***************************************************************************)
EXTENDS Integers, Sequences, FiniteSets, TLC

\* ------------------------------------------------------------------ bounds
MaxRuns == 2
\* I/O failures (output write, memory save) injected over a behaviour.
MaxFaults == 1

\* ----------------------------------------------------------------- strings
Whitespace == {" "}

None == <<"None">>

RECURSIVE lstrip(_)
lstrip(s) ==
    IF s = <<>> THEN s
    ELSE IF Head(s) \in Whitespace THEN lstrip(Tail(s)) ELSE s

RECURSIVE rstrip(_)
rstrip(s) ==
    IF s = <<>> THEN s
    ELSE IF s[Len(s)] \in Whitespace THEN rstrip(SubSeq(s, 1, Len(s) - 1)) ELSE s

strip(s) == rstrip(lstrip(s))

\* str.endswith
endswith(s, suffix) ==
    /\ Len(s) >= Len(suffix)
    /\ SubSeq(s, Len(s) - Len(suffix) + 1, Len(s)) = suffix

dot_html == <<".", "h", "t", "m", "l">>

\* ------------------------------------------------------------------ config
es == <<"e", "s">>
fr == <<"f", "r">>
de == <<"d", "e">>

LANG_MAP ==
    (fr :> [name |-> "French", deepl |-> <<"F", "R">>]) @@
    (es :> [name |-> "Spanish", deepl |-> <<"E", "S">>]) @@
    (de :> [name |-> "German", deepl |-> <<"D", "E">>])

LIBRE_SERVERS == <<"translate.argosopentech.com", "libretranslate.de", "libretranslate.com">>

\* --------------------------------------------------------------- providers
\* What one HTTP exchange with a translation service can come to:
\*   ok       success status, body carries a translation
\*   same     success status, body carries the text it was sent
\*   null     success status, body is JSON whose text field is null
\*   badbody  success status, body is not JSON or lacks the field
\*   status   non-success status
\*   error    connection error
\*   timeout  the request timed out
ServerOutcome == {"ok", "same", "null", "badbody", "status", "error", "timeout"}

\* requests.post to DeepL is given no timeout: besides the outcomes above the
\* request can wait for an answer that never comes.
DeeplOutcome == ServerOutcome \cup {"hang"}

\* What the chat completion call can come to: a reply or an exception.
GptOutcome == {"ok", "fail"}

\* The translation a service answers with: a function of the text and of the
\* language code it is given, "<code>:<text>".
Translate(text, code) == code \o <<":">> \o text

\* The reply of the refinement service, before .strip().
GptContent(text, translation) == <<" ", "g", ":">> \o text \o <<" ">>

RECURSIVE LibreFrom(_, _, _, _)
LibreFrom(i, text, target_lang, outs) ==
    IF i > Len(LIBRE_SERVERS) THEN text
    ELSE IF outs[i] = "ok" THEN Translate(text, target_lang)
    ELSE IF outs[i] = "same" THEN text
    ELSE IF outs[i] = "null" THEN None
    ELSE LibreFrom(i + 1, text, target_lang, outs)

translate_with_libre(text, target_lang, outs) == LibreFrom(1, text, target_lang, outs)

translate_with_deepl(text, target_lang_code, key, out) ==
    IF ~key THEN text
    ELSE IF out = "ok" THEN Translate(text, target_lang_code)
    ELSE IF out = "null" THEN None
    ELSE text

refine_with_gpt(text, translation, target_lang, openai, out) ==
    IF ~openai THEN translation
    ELSE IF out = "fail" THEN translation
    ELSE strip(GptContent(text, translation))

\* ---------------------------------------------------------------- resolver
IsEmptyNever(original) == FALSE

IsEmpty(original) == original = <<>>

InMemoryNever(original, memory) == FALSE

\* A JSON array in the memory file, which json.load hands back as a list: the
\* empty list, kept apart from every dict by a key that is no text.
EmptyList == [k \in {<<"[", "]">>} |-> <<>>]

IsDict(memory) == memory # EmptyList

\* original in memory
InMemory(original, memory) == IsDict(memory) /\ original \in DOMAIN memory

BulkFailedAlways(libre, original) == TRUE

BulkFailed(libre, original) == libre = original

DeeplTargetSame(target_lang) == target_lang

DeeplTarget(target_lang) == LANG_MAP[target_lang]["deepl"]

NoTranslation(deepl, original) == deepl = original

\* original[:50] and friends inside the f-strings of the log calls: evaluated
\* whatever the log level, and a TypeError on a value that is not a string.
Sliceable(v) == v # None

EmptyMap == [k \in {} |-> <<>>]

PutAlone(memory, k, v) == [x \in {k} |-> v]

\* memory[k] = v
Put(memory, k, v) == [x \in DOMAIN memory \cup {k} |-> IF x = k THEN v ELSE memory[x]]

\* The outcome of one call: the value returned (ret), whether the call raised
\* instead of returning (a TypeError of a log line, or of the assignment to
\* memory[original] when the memory is a list) or hangs in the DeepL request
\* (hung), the memory afterwards, the provider functions it
\* invoked in order, and what each provider came to.
apply_translation(text, memory, target_lang, key, openai, o) ==
    LET original == strip(text)
        base == [text |-> text, original |-> original, hit |-> FALSE,
                 raised |-> FALSE, hung |-> FALSE, ret |-> original, mem |-> memory,
                 calls |-> <<>>, libre |-> <<>>, deepl |-> <<>>,
                 deeplOut |-> "none", gptOut |-> "none"]
    IN
    IF IsEmpty(original) THEN base
    ELSE IF InMemory(original, memory) THEN
        [base EXCEPT !.hit = TRUE, !.ret = memory[original],
                     !.raised = ~Sliceable(memory[original])]
    ELSE
        LET libre == translate_with_libre(original, target_lang, o.libre)
            viaDeepl == BulkFailed(libre, original)
            deepl == IF viaDeepl
                     THEN translate_with_deepl(original, DeeplTarget(target_lang), key, o.deepl)
                     ELSE libre
            tried == [base EXCEPT !.libre = libre, !.deepl = deepl,
                        !.calls = IF viaDeepl THEN <<"libre", "deepl">> ELSE <<"libre">>,
                        !.deeplOut = IF ~viaDeepl THEN "none"
                                     ELSE IF ~key THEN "nokey"
                                     ELSE IF o.deepl \in {"ok", "null"} THEN o.deepl
                                     ELSE "text"]
        IN
        IF viaDeepl /\ key /\ o.deepl = "hang" THEN
            [tried EXCEPT !.hung = TRUE, !.deepl = <<>>, !.deeplOut = "hang", !.ret = <<>>]
        ELSE IF NoTranslation(deepl, original) THEN
            IF IsDict(memory)
            THEN [tried EXCEPT !.mem = Put(memory, original, original)]
            ELSE [tried EXCEPT !.raised = TRUE]
        ELSE
            LET final == refine_with_gpt(original, deepl, target_lang, openai, o.gpt) IN
            IF IsDict(memory)
            THEN [tried EXCEPT !.calls = Append(tried.calls, "gpt"),
                               !.gptOut = IF openai THEN o.gpt ELSE "unavailable",
                               !.mem = Put(memory, original, final),
                               !.ret = final,
                               !.raised = ~Sliceable(final)]
            ELSE [tried EXCEPT !.calls = Append(tried.calls, "gpt"),
                               !.gptOut = IF openai THEN o.gpt ELSE "unavailable",
                               !.raised = TRUE]

\* ------------------------------------------------------------ memory store
\* The memory file is missing ("missing"), holds the dump of a dict ("ok"),
\* holds a truncated dump ("corrupt"), holds a JSON array ("list"), or exists
\* and cannot be opened for reading ("unreadable").
NoMemFile == [st |-> "missing", map |-> EmptyMap]

MemFileStates ==
    { NoMemFile,
      [st |-> "corrupt", map |-> EmptyMap],
      [st |-> "list", map |-> EmptyMap],
      [st |-> "unreadable", map |-> EmptyMap] }

load_memory_empty(file) == [raised |-> FALSE, value |-> EmptyMap]

\* What load_memory returns (value), or that it raised: only JSONDecodeError
\* is caught, the OSError of open() is not.
load_memory(file) ==
    IF file.st = "ok" THEN [raised |-> FALSE, value |-> file.map]
    ELSE IF file.st = "list" THEN [raised |-> FALSE, value |-> EmptyList]
    ELSE IF file.st = "unreadable" THEN [raised |-> TRUE, value |-> EmptyMap]
    ELSE [raised |-> FALSE, value |-> EmptyMap]

\* json.dump into a file opened with 'w': the open fails and leaves the file
\* alone, or the dump stops part way and leaves a truncated file, or it succeeds.
IoOutcome == {"ok", "open_fail", "partial"}

Failed(out) == IF out = "ok" THEN 0 ELSE 1

save_memory(file, memory, out) ==
    IF out = "ok" THEN [st |-> "ok", map |-> memory]
    ELSE IF out = "partial" THEN [st |-> "corrupt", map |-> EmptyMap]
    ELSE file

\* ------------------------------------------------------------------- links
\* f'-{target_lang}.html'
LangSuffix(target_lang) == <<"-">> \o target_lang \o dot_html

\* re.sub(r'\.html$', repl, href) on a href without line breaks: the match of
\* the pattern is the ".html" the string ends in, if it ends in one.
re_sub_html(repl, href) ==
    IF endswith(href, dot_html)
    THEN SubSeq(href, 1, Len(href) - Len(dot_html)) \o repl
    ELSE href

AlreadyLocalizedNever(href, target_lang) == FALSE

AlreadyLocalized(href, target_lang) == endswith(href, LangSuffix(target_lang))

\* The href of an <a> tag after the link loop of translate_html_file.
rewrite_href(href, target_lang) ==
    IF href # <<>> /\ endswith(href, dot_html) /\ ~AlreadyLocalized(href, target_lang)
    THEN re_sub_html(LangSuffix(target_lang), href)
    ELSE href

\* --------------------------------------------------------------- documents
\* A document is the sequence of the places translate_html_file works on, in
\* document order: the href of the <a> tags (empty when the tag has none), the
\* alt and title attributes of images, and the text nodes, those whose
\* parent is a script or style element marked "script".
Node(kind, s) == [kind |-> kind, s |-> s]

a_html == <<"a">> \o dot_html

DocA == << Node("href", a_html), Node("href", <<>>),
           Node("alt", <<" ", "h">>), Node("text", <<"h", " ">>), Node("script", <<"k">>) >>

DocB == << Node("href", <<"a", "-", "e", "s">> \o dot_html), Node("href", a_html \o <<"#">>),
           Node("title", <<" ">>), Node("text", <<" ">>), Node("text", <<"k">>),
           Node("alt", <<"h", " ">>) >>

\* The files find_html_files returns, in order: two documents, a file whose
\* content is blank and a file that cannot be read.
html_files ==
    << [st |-> "ok", doc |-> DocA], [st |-> "empty", doc |-> <<>>],
       [st |-> "ok", doc |-> DocB], [st |-> "unreadable", doc |-> <<>>] >>

Files == 1..Len(html_files)

Langs == DOMAIN LANG_MAP

\* The target languages the runs are started with.  LANG_MAP treats its
\* languages alike, so the first run is started with one of them.
RunLangs == {es, fr}

FirstLang == es

\* A value of --lang that is no key of LANG_MAP.
BadLang == <<"x", "x">>

\* args.lang not in LANG_MAP
Unsupported(l) == l \notin DOMAIN LANG_MAP

NoInputNever(files) == FALSE

\* not html_files
NoInput(files) == files = <<>>

IsAttr(n) == n.kind \in {"alt", "title"}

\* The places of the find_all(['a', 'img']) loop.
InTagLoop(n) == n.kind = "href" \/ IsAttr(n)

InScriptOrStyleNever(n) == FALSE

\* element.parent.name in ['script', 'style']
InScriptOrStyle(n) == n.kind = "script"

RECURSIVE Indices(_, _, _)
Indices(doc, i, attrs) ==
    IF i > Len(doc) THEN <<>>
    ELSE IF InTagLoop(doc[i]) = attrs THEN <<i>> \o Indices(doc, i + 1, attrs)
    ELSE Indices(doc, i + 1, attrs)

\* The order translate_html_file visits the places in: first the links and
\* the image attributes (the find_all(['a', 'img']) loop), then the text nodes.
WalkOrder(doc) == Indices(doc, 1, TRUE) \o Indices(doc, 1, FALSE)

NoOutput == [st |-> "absent", lang |-> <<>>, nodes |-> <<>>]

ShouldSkipInverted(exists, force_) == exists /\ force_

ShouldSkip(exists, force_) == exists /\ ~force_

\* ------------------------------------------------------------------- state
VARIABLES
    input,              \* the input files found by find_html_files
    outputs,            \* the output files on disk, by input file and language
    memFile,            \* translation_db.json on disk
    DEEPL_API_KEY,      \* whether the DeepL credential is set
    has_openai,         \* whether the refinement is available
    lang,               \* args.lang
    force,              \* args.force
    pc,                 \* where the process is
    run,                \* number of batch runs started
    idx,                \* index of the current file in html_files
    success_count,
    memory,             \* the dict translate_html_file works on
    soup,               \* the values at the places of the parsed document
    pos,                \* position in WalkOrder of the current document
    translation_count,
    last,               \* observation: the latest apply_translation call
    fileRet,            \* observation: what the latest translate_html_file returned
    resolved,           \* observation: strings the provider chain was run for in this run
    saveFailed,         \* observation: a save_memory of this run failed
    identity,           \* observation: strings recorded as identity mapping in this run
    written,            \* observation: files whose output this run wrote in full
    clean,              \* observation: this run translated, wrote and saved every readable file
    prev,               \* observation: the previous run, when it completed with the same language
    faults              \* number of I/O failures so far

disk == <<input, outputs, memFile>>
args == <<DEEPL_API_KEY, has_openai, lang, force>>
proc == <<pc, run, idx, success_count, memory, soup, pos, translation_count>>
obs == <<last, fileRet, resolved, saveFailed, identity, written, clean, prev>>
vars == <<disk, args, proc, obs, faults>>

NoCall ==
    [called |-> FALSE, text |-> <<>>, original |-> <<>>, hit |-> FALSE,
     raised |-> FALSE, hung |-> FALSE, ret |-> <<>>, calls |-> <<>>, libre |-> <<>>,
     deepl |-> <<>>, deeplOut |-> "none", gptOut |-> "none"]

Observe(r) ==
    [called |-> TRUE, text |-> r.text, original |-> r.original, hit |-> r.hit,
     raised |-> r.raised, hung |-> r.hung, ret |-> r.ret, calls |-> r.calls, libre |-> r.libre,
     deepl |-> r.deepl, deeplOut |-> r.deeplOut, gptOut |-> r.gptOut]

NoFileRet == [file |-> 0, ret |-> FALSE, skipped |-> FALSE]

NoPrev == [same |-> FALSE, clean |-> FALSE, outputs |-> <<>>]

Init ==
    /\ input \in {html_files, <<>>}
    /\ outputs = [f \in Files |-> [l \in Langs |-> NoOutput]]
    /\ memFile = NoMemFile
    /\ DEEPL_API_KEY \in BOOLEAN
    /\ has_openai \in BOOLEAN
    /\ lang = es
    /\ force = FALSE
    /\ pc = "idle"
    /\ run = 0
    /\ idx = 0
    /\ success_count = 0
    /\ memory = EmptyMap
    /\ soup = <<>>
    /\ pos = 0
    /\ translation_count = 0
    /\ last = NoCall
    /\ fileRet = NoFileRet
    /\ resolved = {}
    /\ saveFailed = FALSE
    /\ identity = {}
    /\ written = {}
    /\ clean = FALSE
    /\ prev = NoPrev
    /\ faults = 0

\* __main__: the arguments and the environment of one batch run; sys.exit(1)
\* ("exit") on an unsupported language or an empty list of files, else the
\* loop over html_files is entered.
StartRun ==
    /\ pc \in {"idle", "done", "crashed", "exit"}
    /\ run < MaxRuns
    /\ \E l \in (IF run = 0 THEN {FirstLang, BadLang} ELSE RunLangs \cup {BadLang}),
          f \in BOOLEAN :
        /\ lang' = l
        /\ force' = f
        /\ prev' = IF pc = "done" /\ l = lang /\ ~NoInput(input)
                   THEN [same |-> TRUE, clean |-> clean,
                         outputs |-> [x \in Files |-> outputs[x][l]]]
                   ELSE NoPrev
        /\ IF Unsupported(l) \/ NoInput(input)
           THEN pc' = "exit" /\ idx' = 0
           ELSE pc' = "file" /\ idx' = 1
    /\ UNCHANGED <<DEEPL_API_KEY, has_openai>>
    /\ run' = run + 1
    /\ success_count' = 0
    /\ memory' = EmptyMap
    /\ soup' = <<>>
    /\ pos' = 0
    /\ translation_count' = 0
    /\ last' = NoCall
    /\ fileRet' = NoFileRet
    /\ resolved' = {}
    /\ saveFailed' = FALSE
    /\ written' = {}
    /\ clean' = TRUE
    /\ identity' = {}
    /\ UNCHANGED <<disk, faults>>

\* translate_html_file returns to the loop of __main__.
Return(ret, skipped) ==
    /\ fileRet' = [file |-> idx, ret |-> ret, skipped |-> skipped]
    /\ success_count' = IF ret THEN success_count + 1 ELSE success_count
    /\ IF idx < Len(input)
       THEN idx' = idx + 1 /\ pc' = "file"
       ELSE idx' = idx /\ pc' = "done"

\* translate_html_file up to the walk: load the memory (an exception of
\* load_memory leaves translate_html_file and the loop of __main__), skip an
\* existing output, read and parse the input.
BeginFile ==
    /\ pc = "file"
    /\ memory' = load_memory(memFile).value
    /\ last' = NoCall
    /\ translation_count' = 0
    /\ IF load_memory(memFile).raised
       THEN /\ pc' = "crashed"
            /\ clean' = FALSE
            /\ UNCHANGED <<idx, success_count, fileRet, soup, pos>>
       ELSE IF ShouldSkip(outputs[idx][lang].st # "absent", force)
       THEN /\ Return(FALSE, TRUE)
            /\ clean' = (clean /\ input[idx].st # "ok")
            /\ UNCHANGED <<soup, pos>>
       ELSE IF input[idx].st # "ok"
       THEN /\ Return(FALSE, FALSE)
            /\ UNCHANGED <<soup, pos, clean>>
       ELSE /\ soup' = [i \in 1..Len(input[idx].doc) |-> input[idx].doc[i].s]
            /\ pos' = 1
            /\ pc' = "walk"
            /\ UNCHANGED <<idx, success_count, fileRet, clean>>
    /\ UNCHANGED <<disk, args, run, resolved, saveFailed, identity, written, prev, faults>>

\* Everything the three services can answer to one apply_translation call.
LibreAnswers == [1..Len(LIBRE_SERVERS) -> ServerOutcome]

Outcomes == [libre : LibreAnswers, deepl : DeeplOutcome, gpt : GptOutcome]

\* One answer vector of the bulk servers for each value translate_with_libre
\* can return on text: the call's outcome depends on the vector through that
\* value only.
LibreCases(text) ==
    LET val(a) == translate_with_libre(text, lang, a)
        vals == { val(a) : a \in LibreAnswers }
    IN { CHOOSE a \in LibreAnswers : val(a) = v : v \in vals }

\* The outcomes of apply_translation(text, memory, lang) in the current state,
\* over the answers of the services (none is asked on an empty text or a hit).
Results(text) ==
    IF IsEmpty(strip(text)) \/ InMemory(strip(text), memory)
    THEN { apply_translation(text, memory, lang, DEEPL_API_KEY, has_openai,
                             CHOOSE o \in Outcomes : TRUE) }
    ELSE { apply_translation(text, memory, lang, DEEPL_API_KEY, has_openai,
                             [libre |-> a, deepl |-> d, gpt |-> g]) :
             a \in LibreCases(strip(text)), d \in DeeplOutcome, g \in GptOutcome }

\* The walk moves on to the next place, or to writing the output.
Advance ==
    IF pos < Len(WalkOrder(input[idx].doc))
    THEN pos' = pos + 1 /\ pc' = "walk"
    ELSE pos' = pos /\ pc' = "write"

\* A place the walk passes without calling apply_translation.
Pass ==
    /\ last' = NoCall
    /\ Advance
    /\ UNCHANGED <<memory, soup, translation_count, resolved, identity, clean>>

\* The href at place i becomes val.
Rewrite(i, val) ==
    /\ last' = NoCall
    /\ soup' = [soup EXCEPT ![i] = val]
    /\ Advance
    /\ UNCHANGED <<memory, translation_count, resolved, identity, clean>>

\* apply_translation was called for place i with outcome r; the value at the
\* place becomes val and the count grows by inc, unless the call raised (the
\* TypeError leaves translate_html_file and the loop of __main__) or hangs
\* (the process stays in the DeepL request, "request").
Called(i, r, val, inc) ==
    /\ last' = Observe(r)
    /\ memory' = r.mem
    /\ resolved' = IF r.calls # <<>> THEN resolved \cup {r.original} ELSE resolved
    /\ identity' = IF r.calls = <<"libre", "deepl">> THEN identity \cup {r.original} ELSE identity
    /\ IF r.hung
       THEN /\ pc' = "request"
            /\ clean' = FALSE
            /\ UNCHANGED <<soup, pos, translation_count>>
       ELSE IF r.raised
       THEN /\ pc' = "crashed"
            /\ clean' = FALSE
            /\ UNCHANGED <<soup, pos, translation_count>>
       ELSE /\ soup' = [soup EXCEPT ![i] = val]
            /\ translation_count' = translation_count + inc
            /\ clean' = clean
            /\ Advance

\* One iteration of the loops of translate_html_file over the document.
WalkNode ==
    /\ pc = "walk"
    /\ LET doc == input[idx].doc
           i == WalkOrder(doc)[pos]
           n == doc[i]
           clean_ == strip(n.s)
       IN
       IF n.kind = "href" THEN Rewrite(i, rewrite_href(n.s, lang))
       ELSE IF IsAttr(n) THEN
            IF n.s # <<>>
            THEN \E r \in Results(n.s) : Called(i, r, r.ret, 0)
            ELSE Pass
       ELSE IF InScriptOrStyle(n) THEN Pass
       ELSE IF clean_ # <<>>
            THEN \E r \in Results(clean_) :
                    IF r.ret # clean_ THEN Called(i, r, r.ret, 1) ELSE Called(i, r, soup[i], 0)
            ELSE Pass
    /\ UNCHANGED <<disk, args, run, idx, success_count, fileRet, saveFailed, written, prev, faults>>

\* The output file after open(output_path, 'w') and f.write(...).
write_output(file, content, out) ==
    IF out = "ok" THEN [st |-> "full", lang |-> content.lang, nodes |-> content.nodes]
    ELSE IF out = "partial" THEN [st |-> "partial", lang |-> <<>>, nodes |-> <<>>]
    ELSE file

\* The end of translate_html_file: write the output, then save the memory.
WriteOutput ==
    /\ pc = "write"
    /\ \E w \in IoOutcome, sv \in IoOutcome :
        /\ faults' = faults + Failed(w) + (IF w = "ok" THEN Failed(sv) ELSE 0)
        /\ faults' <= MaxFaults
        /\ w # "ok" => sv = "ok"
        /\ outputs' = [outputs EXCEPT ![idx][lang] =
                          write_output(@, [lang |-> lang, nodes |-> soup], w)]
        /\ IF w = "ok"
           THEN /\ memFile' = save_memory(memFile, memory, sv)
                /\ saveFailed' = (saveFailed \/ sv # "ok")
                /\ clean' = (clean /\ sv = "ok")
                /\ written' = written \cup {idx}
                /\ Return(TRUE, FALSE)
           ELSE /\ memFile' = memFile
                /\ saveFailed' = saveFailed
                /\ clean' = FALSE
                /\ written' = written
                /\ Return(FALSE, FALSE)
    /\ last' = NoCall
    /\ UNCHANGED <<input, args, run, memory, soup, pos, translation_count,
                   resolved, identity, prev>>

Next == StartRun \/ BeginFile \/ WalkNode \/ WriteOutput

Spec == Init /\ [][Next]_vars

\* The process takes a step whenever it can take one.
FairSpec == Spec /\ WF_vars(Next)

\* The batch started on whatever memory file is there.
InitStore ==
    /\ memFile \in MemFileStates
    /\ input = html_files
    /\ outputs = [f \in Files |-> [l \in Langs |-> NoOutput]]
    /\ DEEPL_API_KEY \in BOOLEAN
    /\ has_openai \in BOOLEAN
    /\ lang = es
    /\ force = FALSE
    /\ pc = "idle"
    /\ run = 0
    /\ idx = 0
    /\ success_count = 0
    /\ memory = EmptyMap
    /\ soup = <<>>
    /\ pos = 0
    /\ translation_count = 0
    /\ last = NoCall
    /\ fileRet = NoFileRet
    /\ resolved = {}
    /\ saveFailed = FALSE
    /\ identity = {}
    /\ written = {}
    /\ clean = FALSE
    /\ prev = NoPrev
    /\ faults = 0

SpecStore == InitStore /\ [][Next]_vars

\* ------------------------------------------------------------------ claims
\* The place the walk is at (pc = "walk").
CurNode == input[idx].doc[WalkOrder(input[idx].doc)[pos]]

Has(seq, x) == \E i \in 1..Len(seq) : seq[i] = x

\* C1: a call of apply_translation on a text whose trimmed form is a key of
\* the memory returns the stored value, invokes no provider and leaves the
\* memory as it was.
C1_CacheHit ==
    [][ (last'.called /\ strip(last'.text) \in DOMAIN memory) =>
            /\ ~last'.raised
            /\ last'.ret = memory[strip(last'.text)]
            /\ last'.calls = <<>>
            /\ memory' = memory ]_vars

C1_Witness ==
    /\ last.called /\ last.hit
    /\ last.text # strip(last.text)
    /\ last.ret = memory[strip(last.text)]
    /\ last.ret # strip(last.text)

\* C2: over a batch run the provider chain is invoked at most once for each
\* distinct trimmed string: no call of apply_translation that returns has
\* invoked a provider for a string the chain was already run for in this run.
C2_AtMostOnce ==
    [][ (last'.called /\ ~last'.raised /\ last'.calls # <<>>) =>
            strip(last'.text) \notin resolved ]_vars

\* C3, as claimed: with the bulk provider returning t unchanged, the paid
\* provider answering "<lang>:<t>" for the language it is given and the
\* refinement unavailable, the call returns "<lang>:<t>" for the target
\* language code of the run and the memory maps t to that string.
C3_StubCase ==
    /\ last.called /\ ~last.hit /\ last.original # <<>>
    /\ last.libre = last.original
    /\ last.deeplOut = "ok"
    /\ last.gptOut = "unavailable"

C3_RunLanguagePrefix ==
    C3_StubCase =>
        /\ last.ret = lang \o <<":">> \o last.original
        /\ memory[last.original] = lang \o <<":">> \o last.original

\* C3, amended: in that case the call returns "<CODE>:<t>" where CODE is the
\* DeepL code LANG_MAP gives for the target language ("ES:Hello" for target
\* es), and the memory maps t to that string.
C3_DeeplCodePrefix ==
    C3_StubCase =>
        /\ ~last.raised
        /\ last.ret = LANG_MAP[lang]["deepl"] \o <<":">> \o last.original
        /\ memory[last.original] = last.ret

C3_Witness ==
    /\ C3_StubCase
    /\ lang = es
    /\ last.original = <<"h">>
    /\ last.ret = <<"E", "S", ":", "h">>
    /\ memory[<<"h">>] = <<"E", "S", ":", "h">>

\* C4: on a cache miss the bulk provider is invoked first, and the paid
\* provider is invoked, second, if and only if the bulk provider returned
\* the trimmed input.
C4_ProviderOrder ==
    [][ (last'.called /\ strip(last'.text) # <<>> /\ strip(last'.text) \notin DOMAIN memory) =>
            /\ last'.calls # <<>>
            /\ last'.calls[1] = "libre"
            /\ \A i \in 2..Len(last'.calls) : last'.calls[i] # "libre"
            /\ Has(last'.calls, "deepl") <=> (last'.libre = strip(last'.text))
            /\ Has(last'.calls, "deepl") => last'.calls[2] = "deepl" ]_vars

C4_Witness ==
    /\ last.called /\ ~last.hit
    /\ last.libre # last.original
    /\ last.calls[1] = "libre"
    /\ ~Has(last.calls, "deepl")

\* C5: the refinement is invoked only when the candidate of the bulk and paid
\* providers differs from the trimmed original, and when the refinement is
\* unavailable or fails the call returns and stores that candidate.
C5_RefinementFallback ==
    last.called =>
        /\ Has(last.calls, "gpt") => last.deepl # last.original
        /\ last.gptOut \in {"unavailable", "fail"} =>
              /\ ~last.raised
              /\ last.ret = last.deepl
              /\ memory[last.original] = last.deepl
              /\ last.ret # last.original

\* C6: when every provider returns the trimmed original t on a miss, the call
\* stores memory[t] = t and returns t, and no later call that returns has
\* invoked a provider for t (stated for the later calls of the same run).
C6_IdentityMapping ==
    [][ /\ (/\ last'.called /\ ~last'.hit /\ last'.original # <<>>
            /\ last'.libre = last'.original /\ last'.deepl = last'.original)
           => (/\ ~last'.raised
               /\ last'.ret = last'.original
               /\ memory'[last'.original] = last'.original)
        /\ (last'.called /\ ~last'.raised /\ strip(last'.text) \in identity)
           => last'.calls = <<>> ]_vars

\* C7: at a text node or an image attribute whose value is whitespace only,
\* the walk creates no memory entry and invokes no provider.
C7_EmptyString ==
    [][ (pc = "walk" /\ CurNode.kind # "script" /\ strip(CurNode.s) = <<>>) =>
            /\ memory' = memory
            /\ memFile' = memFile
            /\ last'.calls = <<>>
            /\ resolved' = resolved
            /\ last'.called => (~last'.raised /\ last'.ret = <<>>) ]_vars

C7_Witness ==
    /\ last.called
    /\ last.text # <<>>
    /\ strip(last.text) = <<>>
    /\ last.calls = <<>>
    /\ <<>> \notin DOMAIN memory

\* C8: whatever the providers come to, apply_translation returns a string
\* without raising, and returns the trimmed original when no provider
\* produced a translation.
C8_NeverRaises ==
    last.called =>
        /\ ~last.raised
        /\ last.ret # None
        /\ (~last.hit /\ last.libre = last.original /\ last.deepl = last.original)
              => last.ret = last.original

C10_SkipExisting ==
    [][ (pc = "file" /\ outputs[idx][lang].st # "absent" /\ ~force) =>
            /\ fileRet' = [file |-> idx, ret |-> FALSE, skipped |-> TRUE]
            /\ success_count' = success_count
            /\ outputs' = outputs
            /\ input' = input
            /\ memFile' = memFile
            /\ last' = NoCall
            /\ resolved' = resolved
            /\ pc' \in {"file", "done"} ]_vars

C10_Witness ==
    /\ fileRet.skipped /\ ~fileRet.ret
    /\ fileRet.file \in Files
    /\ outputs[fileRet.file][lang].st = "full"
    /\ input[fileRet.file].st = "ok"

\* The index in the document of the place the walk is at (pc = "walk").
CurIndex == WalkOrder(input[idx].doc)[pos]

\* translate_html_file returns in this step (to the loop of __main__).
Returns == pc \in {"file", "write"} /\ pc' \in {"file", "done"} /\ run' = run

\* The entries the memory file holds: what a later load finds in it.
StoreMap(file) == IF file.st = "ok" THEN file.map ELSE EmptyMap

StoreKeys(file) == DOMAIN StoreMap(file)

\* C11: for target language L the link loop replaces the trailing ".html" of
\* a href by "-L.html" when the href ends in ".html" and not in "-L.html",
\* leaves every other href unchanged, and rewriting the result again changes
\* nothing.
C11_LinkRewrite ==
    [][ (pc = "walk" /\ CurNode.kind = "href") =>
            LET h == CurNode.s
                suffix == <<"-">> \o lang \o dot_html
                h2 == soup'[CurIndex]
            IN  /\ (endswith(h, dot_html) /\ ~endswith(h, suffix))
                        => h2 = SubSeq(h, 1, Len(h) - Len(dot_html)) \o suffix
                /\ (endswith(h, suffix) \/ ~endswith(h, dot_html)) => h2 = h
                /\ rewrite_href(h2, lang) = h2
                /\ \A j \in DOMAIN soup : j # CurIndex => soup'[j] = soup[j] ]_vars

C11_Witness ==
    /\ outputs[1][fr].st = "full"
    /\ outputs[1][fr].nodes[1] = <<"a", "-", "f", "r">> \o dot_html
    /\ outputs[3][fr].st = "full"
    /\ outputs[3][fr].nodes[1] = <<"a", "-", "e", "s", "-", "f", "r">> \o dot_html
    /\ outputs[3][es].st = "full"
    /\ outputs[3][es].nodes[1] = <<"a", "-", "e", "s">> \o dot_html
    /\ outputs[3][es].nodes[2] = a_html \o <<"#">>

\* C12: the memory is loaded once per run and flushed after every file: when
\* a file starts, the memory holds every entry resolved so far in the run,
\* and when a file has finished (no memory save having failed), the memory
\* file holds every entry resolved for that file and the earlier ones.
C12_FlushedAfterEveryFile ==
    [][ /\ (pc = "file" /\ pc' = "walk") => resolved \subseteq DOMAIN memory'
        /\ (Returns /\ ~saveFailed') => resolved' \subseteq StoreKeys(memFile') ]_vars

\* C13: whatever the state of the memory file, load_memory returns a mapping
\* without raising, the empty mapping when the file is missing or malformed.
C13_LoadNeverFails ==
    [][ pc = "file" =>
            /\ pc' # "crashed"
            /\ IsDict(memory')
            /\ memFile.st \in {"missing", "corrupt"} => memory' = EmptyMap ]_vars

\* C14: when the memory save fails after the output of a file was written,
\* no error propagates, the file is reported as processed, the batch goes on
\* and the memory file keeps the entries it held before that file.
C14_FailedSaveNotFatal ==
    [][ (/\ pc = "write"
         /\ outputs'[idx][lang] = [st |-> "full", lang |-> lang, nodes |-> soup]
         /\ memFile' # [st |-> "ok", map |-> memory]) =>
            /\ pc' \in {"file", "done"}
            /\ fileRet' = [file |-> idx, ret |-> TRUE, skipped |-> FALSE]
            /\ success_count' = success_count + 1
            /\ StoreMap(memFile') = StoreMap(memFile) ]_vars

\* C15: each file of the list is attempted once, in order, whatever happens
\* to the files before it, and the success count is the number of files
\* whose processing returned success.
C15_FailureIsolation ==
    [][ /\ pc \in {"file", "walk", "write"} => pc' \in {"file", "walk", "write", "done"}
        /\ (run' = run /\ idx' # idx) => (Returns /\ idx' = idx + 1)
        /\ (pc # "done" /\ pc' = "done") => idx = Len(input)
        /\ run' = run =>
              success_count' = success_count + (IF Returns /\ fileRet'.ret THEN 1 ELSE 0) ]_vars

\* C16: when the language is not supported or no input file is found, the
\* process exits with status 1 having read no input file, written no output
\* file and no memory file and called no provider, and does nothing after.
C16_InvalidConfigFatal ==
    [][ /\ (run' = run + 1 /\ (lang' \notin DOMAIN LANG_MAP \/ input = <<>>)) =>
              /\ pc' = "exit"
              /\ idx' = 0
              /\ UNCHANGED <<input, outputs, memFile>>
              /\ last' = NoCall
              /\ resolved' = {}
        /\ pc = "exit" => (run' = run + 1 /\ UNCHANGED <<input, outputs, memFile>>) ]_vars

C16_Witness ==
    /\ pc = "exit"
    /\ run = MaxRuns
    /\ input = <<>>
    /\ lang \in DOMAIN LANG_MAP

\* C17: when writing the output of a file fails, translate_html_file reports
\* failure, the output path holds what it held before and the memory file is
\* not written.
C17_NoPartialOutput ==
    [][ (pc = "write" /\ Returns /\ ~fileRet'.ret) =>
            /\ outputs' = outputs
            /\ memFile' = memFile ]_vars

\* C18: a text node in a script or style element is not passed to
\* apply_translation and not modified; every other non-blank text node is
\* passed, trimmed, to apply_translation and replaced by the result exactly
\* when the result differs from the trimmed text; translation_count is the
\* number of text nodes replaced.
C18_TextNodeWalk ==
    [][ /\ (pc = "walk" /\ CurNode.kind = "script") =>
              (~last'.called /\ soup' = soup /\ translation_count' = translation_count)
        /\ (pc = "walk" /\ CurNode.kind = "text" /\ strip(CurNode.s) # <<>>) =>
              /\ last'.called
              /\ last'.text = strip(CurNode.s)
              /\ (~last'.raised /\ ~last'.hung) =>
                    /\ (soup'[CurIndex] # soup[CurIndex]) <=> (last'.ret # strip(CurNode.s))
                    /\ last'.ret # strip(CurNode.s) => soup'[CurIndex] = last'.ret
                    /\ translation_count' =
                          translation_count + (IF last'.ret # strip(CurNode.s) THEN 1 ELSE 0)
        /\ pc' = "write" =>
              translation_count' =
                  Cardinality({ j \in DOMAIN soup' :
                                  /\ input[idx].doc[j].kind = "text"
                                  /\ soup'[j] # input[idx].doc[j].s }) ]_vars

C18_Witness ==
    /\ pc = "write" /\ idx = 1
    /\ translation_count = 1
    /\ soup[3] # DocA[3].s
    /\ soup[4] # DocA[4].s
    /\ soup[5] = DocA[5].s
    /\ DocA[5].kind = "script"

\* C19: every value apply_translation returns in a run for target language L
\* is the trimmed source text or a translation the providers produce for L.
C19_OneLanguage ==
    (last.called /\ ~last.raised /\ ~last.hung /\ last.original # <<>>) =>
        last.ret \in { last.original,
                       Translate(last.original, lang),
                       Translate(last.original, DeeplTarget(lang)),
                       strip(GptContent(last.original, last.deepl)) }

\* C20: every request to a provider is bounded in time, so every call of
\* apply_translation returns (or raises): the process does not stay in a
\* provider request for ever.
C20_CallsReturn == [](pc = "request" => <>(pc # "request"))

\* C21: while a file is processed, a call of apply_translation removes no
\* key of the memory and changes the value of no key already present, and
\* adds at most one key, the trimmed form of its input; a step of the walk
\* that calls nothing leaves the memory alone.
C21_AppendOnly ==
    [][ pc = "walk" =>
            /\ \A k \in DOMAIN memory : k \in DOMAIN memory' /\ memory'[k] = memory[k]
            /\ last'.called => (DOMAIN memory' \ DOMAIN memory) \subseteq {strip(last'.text)}
            /\ ~last'.called => memory' = memory ]_vars

C21_Witness ==
    /\ last.called /\ ~last.hit /\ ~last.raised /\ ~last.hung
    /\ last.text = <<"k">>
    /\ DOMAIN memory = {<<"h">>, <<"k">>}
    /\ memory[<<"h">>] # <<"h">>
    /\ memory[<<"k">>] = last.ret

====
